---- MODULE Spec2Model ----
(***************************************************************************)
(* German vocabulary backend (backend/main.py) and the offline audio       *)
(* generator (generate_missing_audio.py).                                  *)
(*                                                                         *)
(* Text is modelled as a sequence of one-character strings.  A cell of the *)
(* pandas DataFrame is either NaN (an empty CSV field) or a text.          *)
(***************************************************************************)
EXTENDS Integers, Sequences, FiniteSets, TLC

VARIABLES
    csv,        \* SingeSheet.csv as it is on disk now
    table,      \* rows of the excluded_words table
    seq,        \* the AUTOINCREMENT counter of excluded_words.id
    now,        \* CURRENT_TIMESTAMP, in whole seconds
    audio_dir,  \* german_audio: file name -> size in bytes (absent = no file)
    resp,       \* the last request and its response
    pc,         \* per worker process: position inside a handler
    loc,        \* per worker process: the handler's local variables
    lock,       \* the database write lock: 0 = free, else the holding worker
    wrote,      \* history: per word_index, what the last committed call wrote
    gen         \* generate_missing_audio: its position, frame and history

vars == <<csv, table, seq, now, audio_dir, resp, pc, loc, lock, wrote, gen>>

----------------------------------------------------------------------------
(* Bounds of the model *)

MaxClock == 1       \* the clock ticks at most this many times
MaxSeq == 2         \* at most this many INSERTs are explored
NumWorkers == 2     \* worker processes of the concurrent specification
MaxFiles == 1       \* at most this many files lie in german_audio

----------------------------------------------------------------------------
(* Text *)

Whitespace == {" "}
Letters == {"a", "b", "c", "d", "e", "f", "g", "h", "i", "k", "m", "n", "o",
            "p", "r", "s", "t", "u", "y", "B", "D", "E", "F", "H", "T"}
DigitChars == {"0", "1", "2", "3", "4", "5", "6", "7", "8", "9"}

\* str.isalnum() of one character
IsAlnum(c) == c \in Letters \cup DigitChars

NanText == <<"n", "a", "n">>

NaN == [isna |-> TRUE, text |-> <<>>]
Txt(s) == [isna |-> FALSE, text |-> s]

\* str(cell): a NaN cell prints as 'nan'
Str(cell) == IF cell.isna THEN NanText ELSE cell.text

RECURSIVE LStrip(_)
LStrip(s) ==
    IF s # <<>> /\ Head(s) \in Whitespace THEN LStrip(Tail(s)) ELSE s

RECURSIVE RStrip(_)
RStrip(s) ==
    IF s # <<>> /\ s[Len(s)] \in Whitespace
    THEN RStrip(SubSeq(s, 1, Len(s) - 1))
    ELSE s

\* str.strip()
Strip(s) == RStrip(LStrip(s))

\* s[:n] of Python: never fails, yields s when s is shorter than n
Prefix(s, n) == SubSeq(s, 1, IF Len(s) < n THEN Len(s) ELSE n)

----------------------------------------------------------------------------
(* The vocabulary source *)

Row(g, e, gs, es) ==
    [german_word |-> g, english_word |-> e,
     german_sentence |-> gs, english_sentence |-> es]

Haus == <<"H", "a", "u", "s">>
Buch == <<"B", "u", "c", "h">>
Ei == <<"E", "i">>
house == <<"h", "o", "u", "s", "e">>
home == <<"h", "o", "m", "e">>
book == <<"b", "o", "o", "k">>
egg == <<"e", "g", "g">>
\* 22 characters: "Donaudampfschiff-Fahrt"
Donau == <<"D", "o", "n", "a", "u", "d", "a", "m", "p", "f", "s", "c", "h",
           "i", "f", "f", "-", "F", "a", "h", "r", "t">>
\* 23 characters: "Danube steamship's trip"
Danube == <<"D", "a", "n", "u", "b", "e", " ", "s", "t", "e", "a", "m", "s",
            "h", "i", "p", "'", "s", " ", "t", "r", "i", "p">>
\* 17 characters: "Fahrt 2 (B-Seite)"
Fahrt == <<"F", "a", "h", "r", "t", " ", "2", " ", "(", "B", "-", "S", "e",
           "i", "t", "e", ")">>
SatzDe == <<"D", "a", "s", " ", "H", "a", "u", "s", ".">>
SatzEn == <<"T", "h", "e", " ", "h", "o", "u", "s", "e", ".">>

\* A DataFrame as pd.read_csv yields it: rows in file order, positions 0..n-1
FrameA ==
    << Row(Txt(<<" ">> \o Haus), Txt(house), Txt(SatzDe \o <<" ">>), Txt(SatzEn)),
       Row(Txt(Buch), Txt(book), NaN, NaN),
       Row(Txt(Donau), Txt(Danube), Txt(SatzDe), NaN) >>

FrameB ==
    << Row(Txt(Haus), Txt(home), Txt(SatzDe), Txt(SatzEn)),
       Row(NaN, Txt(book), NaN, NaN) >>

FrameC ==
    << Row(Txt(<<" ">> \o NanText \o <<" ">>), Txt(egg), NaN, NaN),
       Row(Txt(Fahrt), Txt(<<" ", " ">>), NaN, Txt(SatzEn)),
       Row(Txt(Ei), Txt(egg), Txt(SatzDe), Txt(SatzEn)) >>

Frames == {FrameA, FrameB, FrameC}

\* The file on disk: readable with a frame, or missing / unparsable
Readable(f) == [ok |-> TRUE, df |-> f]
Unreadable == [ok |-> FALSE, df |-> <<>>]

Files == {Readable(f) : f \in Frames} \cup {Unreadable}

----------------------------------------------------------------------------
(* Rows of a frame *)

\* len(df)
RowCount(df) == Len(df)

\* df.iloc[index], for 0 <= index < len(df)
ILoc(df, index) == df[index + 1]

GermanWord(row) == Strip(Str(row.german_word))
EnglishWord(row) == Strip(Str(row.english_word))

\* The test of get_vocabulary on the two trimmed words
WordsValid(g, e) == g # <<>> /\ e # <<>> /\ g # NanText /\ e # NanText

Entry(index, row) ==
    [index |-> index,
     german_word |-> GermanWord(row),
     english_word |-> EnglishWord(row),
     german_sentence |-> Strip(Str(row.german_sentence)),
     english_sentence |-> Strip(Str(row.english_sentence))]

----------------------------------------------------------------------------
(* The excluded_words table *)

\* SELECT word_index FROM excluded_words, as a set
ExcludedIndices(tbl) == {r.word_index : r \in tbl}

\* A plain INSERT into a table without the UNIQUE(word_index) constraint
InsertOnly(tbl, s, index, g, e, t) ==
    tbl \cup {[id |-> s + 1, word_index |-> index, german_word |-> g,
               english_word |-> e, excluded_at |-> t]}

\* INSERT OR REPLACE under UNIQUE(word_index): the conflicting rows are
\* deleted, then the new row is inserted with a fresh AUTOINCREMENT id
InsertOrReplace(tbl, s, index, g, e, t) ==
    {r \in tbl : r.word_index # index}
        \cup {[id |-> s + 1, word_index |-> index, german_word |-> g,
               english_word |-> e, excluded_at |-> t]}

\* DELETE FROM excluded_words WHERE word_index = ?
DeleteWhere(tbl, index) == {r \in tbl : r.word_index # index}

\* A rowcount test that always passes (rowcount >= 0)
RowCountAlways(tbl, index) == 1

\* cursor.rowcount after the DELETE
RowCountDeleted(tbl, index) == Cardinality({r \in tbl : r.word_index = index})

\* The columns SELECTed by get_excluded_words
Selected(r) ==
    [word_index |-> r.word_index, german_word |-> r.german_word,
     english_word |-> r.english_word, excluded_at |-> r.excluded_at]

\* All the orders of the rows of tbl
RowOrders(tbl) ==
    {s \in [1..Cardinality(tbl) -> tbl] :
        \A i, j \in 1..Cardinality(tbl) : i # j => s[i] # s[j]}

\* ORDER BY excluded_at ASC
OrderByExcludedAtAsc(tbl) ==
    {s \in RowOrders(tbl) :
        \A i \in 1..(Len(s) - 1) : s[i].excluded_at <= s[i + 1].excluded_at}

\* ORDER BY excluded_at DESC: SQL leaves the order of equal keys open
OrderByExcludedAtDesc(tbl) ==
    {s \in RowOrders(tbl) :
        \A i \in 1..(Len(s) - 1) : s[i].excluded_at >= s[i + 1].excluded_at}

----------------------------------------------------------------------------
(* Responses *)

StatusOk == 200
StatusBadRequest == 400
StatusNotFound == 404
StatusServerError == 500

NoKind == "-"

\* had: whether word_index was excluded when the request arrived
Response(op, index, kind, status, detail, body) ==
    [op |-> op, index |-> index, kind |-> kind, status |-> status,
     detail |-> detail, body |-> body, file |-> <<>>,
     had |-> index \in ExcludedIndices(table)]

\* No request is being answered (the environment moved)
Idle == Response("none", -1, NoKind, 0, "", <<>>)

\* load_vocabulary_data swallowing the error and yielding no rows
SilentlyEmpty(op, index, kind) == Response(op, index, kind, StatusOk, "", <<>>)

\* load_vocabulary_data raising HTTPException(500)
SourceUnavailable(op, index, kind) ==
    Response(op, index, kind, StatusServerError,
             "Error loading vocabulary data", <<>>)

----------------------------------------------------------------------------
(* Request handlers; each runs to completion (async def without await) *)

\* The loop of get_vocabulary from row position k (0-based) on
RECURSIVE VocabularyFrom(_, _, _)
VocabularyFrom(df, k, excluded) ==
    IF k >= RowCount(df) THEN <<>>
    ELSE IF k \in excluded THEN VocabularyFrom(df, k + 1, excluded)
    ELSE IF WordsValid(GermanWord(ILoc(df, k)), EnglishWord(ILoc(df, k)))
         THEN <<Entry(k, ILoc(df, k))>> \o VocabularyFrom(df, k + 1, excluded)
         ELSE VocabularyFrom(df, k + 1, excluded)

\* The list built without looking at the excluded indices
VocabularyListUnfiltered(df, tbl) == VocabularyFrom(df, 0, {})

VocabularyList(df, tbl) == VocabularyFrom(df, 0, ExcludedIndices(tbl))

get_vocabulary ==
    /\ resp' = IF ~csv.ok
               THEN SourceUnavailable("get_vocabulary", -1, NoKind)
               ELSE Response("get_vocabulary", -1, NoKind, StatusOk, "",
                             VocabularyList(csv.df, table))
    /\ UNCHANGED <<csv, table, seq, now, audio_dir, gen, pc, loc, lock, wrote>>

get_excluded_words ==
    /\ \E rows \in OrderByExcludedAtDesc(table) :
          resp' = Response("get_excluded_words", -1, NoKind, StatusOk, "",
                           [i \in 1..Len(rows) |-> Selected(rows[i])])
    /\ UNCHANGED <<csv, table, seq, now, audio_dir, gen, pc, loc, lock, wrote>>

\* add_excluded_word storing the cells as they print, without .strip()
AddedTableUntrimmed(df, tbl, s, t, word_index) ==
    InsertOrReplace(tbl, s, word_index,
                    Str(ILoc(df, word_index).german_word),
                    Str(ILoc(df, word_index).english_word), t)

\* The table after add_excluded_word(word_index) on a loaded frame
AddedTable(df, tbl, s, t, word_index) ==
    InsertOrReplace(tbl, s, word_index,
                    GermanWord(ILoc(df, word_index)),
                    EnglishWord(ILoc(df, word_index)), t)

add_excluded_word(word_index) ==
    /\ IF ~csv.ok
       THEN /\ resp' = SourceUnavailable("add_excluded_word", word_index, NoKind)
            /\ UNCHANGED <<table, seq>>
       ELSE IF word_index < 0 \/ word_index >= RowCount(csv.df)
       THEN /\ resp' = Response("add_excluded_word", word_index, NoKind,
                                StatusNotFound, "Word not found", <<>>)
            /\ UNCHANGED <<table, seq>>
       ELSE /\ seq < MaxSeq
            /\ table' = AddedTable(csv.df, table, seq, now, word_index)
            /\ seq' = seq + 1
            /\ resp' = Response("add_excluded_word", word_index, NoKind,
                                StatusOk, "added to excluded list", <<>>)
    /\ UNCHANGED <<csv, now, audio_dir, gen, pc, loc, lock, wrote>>

remove_excluded_word(word_index) ==
    /\ table' = DeleteWhere(table, word_index)
    /\ resp' = IF RowCountDeleted(table, word_index) > 0
               THEN Response("remove_excluded_word", word_index, NoKind,
                             StatusOk, "removed from excluded list", <<>>)
               ELSE Response("remove_excluded_word", word_index, NoKind,
                             StatusNotFound, "Excluded word not found", <<>>)
    /\ UNCHANGED <<csv, seq, now, audio_dir, gen, pc, loc, lock, wrote>>

\* get_vocabulary_item hiding an excluded word as the list does
VocabularyItemUnlessExcluded(file, index) ==
    IF ~file.ok
    THEN SourceUnavailable("get_vocabulary_item", index, NoKind)
    ELSE IF index < 0 \/ index >= RowCount(file.df)
            \/ index \in ExcludedIndices(table)
    THEN Response("get_vocabulary_item", index, NoKind, StatusNotFound,
                  "Vocabulary entry not found", <<>>)
    ELSE Response("get_vocabulary_item", index, NoKind, StatusOk, "",
                  <<Entry(index, ILoc(file.df, index))>>)

\* What get_vocabulary_item answers when the file on disk is `file`
VocabularyItem(file, index) ==
    IF ~file.ok
    THEN SourceUnavailable("get_vocabulary_item", index, NoKind)
    ELSE IF index < 0 \/ index >= RowCount(file.df)
    THEN Response("get_vocabulary_item", index, NoKind, StatusNotFound,
                  "Vocabulary entry not found", <<>>)
    ELSE Response("get_vocabulary_item", index, NoKind, StatusOk, "",
                  <<Entry(index, ILoc(file.df, index))>>)

get_vocabulary_item(index) ==
    /\ resp' = VocabularyItem(csv, index)
    /\ UNCHANGED <<csv, table, seq, now, audio_dir, gen, pc, loc, lock, wrote>>

----------------------------------------------------------------------------
(* Audio artifacts *)

WordCap == 20
SentenceCap == 15
IndexWidth == 3

AudioKinds == {"german_word", "english_word", "german_sentence",
               "english_sentence"}

\* A sanitizer that drops the characters it should replace
DropUnsafe(text) == SelectSeq(text, IsAlnum)

\* "".join(c if c.isalnum() else "_" for c in text)
create_safe_filename(text) ==
    [i \in 1..Len(text) |-> IF IsAlnum(text[i]) THEN text[i] ELSE "_"]

DigitOf(d) == <<"0", "1", "2", "3", "4", "5", "6", "7", "8", "9">>[d + 1]

\* str(n) for n >= 0
RECURSIVE Decimal(_)
Decimal(n) ==
    IF n < 10 THEN <<DigitOf(n)>>
    ELSE Decimal(n \div 10) \o <<DigitOf(n % 10)>>

RECURSIVE ZeroPad(_, _)
ZeroPad(s, width) == IF Len(s) >= width THEN s ELSE ZeroPad(<<"0">> \o s, width)

\* f"{index:03d}" for index >= 0
FormatIndex(index) == ZeroPad(Decimal(index), IndexWidth)

RoleGerman == <<"_", "g", "e", "r", "m", "a", "n", "_">>
RoleEnglish == <<"_", "e", "n", "g", "l", "i", "s", "h", "_">>
RoleSentenceDe == <<"_", "s", "e", "n", "t", "e", "n", "c", "e", "_", "d", "e", "_">>
RoleSentenceEn == <<"_", "s", "e", "n", "t", "e", "n", "c", "e", "_", "e", "n", "_">>
Mp3 == <<".", "m", "p", "3">>

\* audio_file_map of get_audio, file names inside AUDIO_DIR
AudioFileMap(index, german_word, english_word) ==
    LET safe_german == create_safe_filename(german_word)
        safe_english == create_safe_filename(english_word)
    IN [k \in AudioKinds |->
          CASE k = "german_word" ->
                 FormatIndex(index) \o RoleGerman
                    \o Prefix(safe_german, WordCap) \o Mp3
            [] k = "english_word" ->
                 FormatIndex(index) \o RoleEnglish
                    \o Prefix(safe_english, WordCap) \o Mp3
            [] k = "german_sentence" ->
                 FormatIndex(index) \o RoleSentenceDe
                    \o Prefix(safe_german, SentenceCap) \o Mp3
            [] k = "english_sentence" ->
                 FormatIndex(index) \o RoleSentenceEn
                    \o Prefix(safe_english, SentenceCap) \o Mp3]

\* german_audio without any file
EmptyDir == [n \in {} |-> 0]

\* audio_file.exists()
Exists(dir, name) == name \in DOMAIN dir

\* An existence test that forgets the size of the file
MissingOnly(dir, name) == ~Exists(dir, name)

\* not audio_file.exists() or audio_file.stat().st_size == 0
Unplayable(dir, name) == ~Exists(dir, name) \/ dir[name] = 0

\* get_audio falling back to the German word for an unknown audio_type
ResolveAudioDefaultKind(df, dir, index, audio_type) ==
    LET row == ILoc(df, index)
        map == AudioFileMap(index, GermanWord(row), EnglishWord(row))
        name == IF audio_type \in DOMAIN map THEN map[audio_type]
                ELSE map["german_word"]
    IN IF Unplayable(dir, name)
       THEN [Response("get_audio", index, audio_type, StatusNotFound,
                      "Audio file not found", <<>>) EXCEPT !.file = name]
       ELSE [Response("get_audio", index, audio_type, StatusOk, "", name)
                EXCEPT !.file = name]

\* The outcome of get_audio once the frame is loaded and index is in range
ResolveAudio(df, dir, index, audio_type) ==
    LET row == ILoc(df, index)
        map == AudioFileMap(index, GermanWord(row), EnglishWord(row))
    IN IF audio_type \notin DOMAIN map
       THEN Response("get_audio", index, audio_type, StatusBadRequest,
                     "Invalid audio type", <<>>)
       ELSE IF Unplayable(dir, map[audio_type])
       THEN [Response("get_audio", index, audio_type, StatusNotFound,
                      "Audio file not found", <<>>)
                EXCEPT !.file = map[audio_type]]
       ELSE [Response("get_audio", index, audio_type, StatusOk, "",
                      map[audio_type])
                EXCEPT !.file = map[audio_type]]

get_audio(index, audio_type) ==
    /\ resp' = IF ~csv.ok
               THEN SourceUnavailable("get_audio", index, audio_type)
               ELSE IF index < 0 \/ index >= RowCount(csv.df)
               THEN Response("get_audio", index, audio_type, StatusNotFound,
                             "Vocabulary entry not found", <<>>)
               ELSE ResolveAudio(csv.df, audio_dir, index, audio_type)
    /\ UNCHANGED <<csv, table, seq, now, audio_dir, gen, pc, loc, lock, wrote>>

----------------------------------------------------------------------------
(* The environment *)

\* SingeSheet.csv is replaced, removed or restored between two requests
ChangeSource ==
    /\ \E f \in Files \ {csv} : csv' = f
    /\ resp' = Idle
    /\ UNCHANGED <<table, seq, now, audio_dir, gen, pc, loc, lock, wrote>>

\* A second passes
Tick ==
    /\ now < MaxClock
    /\ now' = now + 1
    /\ resp' = Idle
    /\ UNCHANGED <<csv, table, seq, audio_dir, gen, pc, loc, lock, wrote>>

----------------------------------------------------------------------------
(* The exclusion store under sequential requests *)

Workers == 1..NumWorkers

\* History value of a word_index whose last committed call deleted it, or
\* that no call has written
Absent == [present |-> FALSE, german_word |-> <<>>, english_word |-> <<>>,
           excluded_at |-> 0]

\* The locals of a handler that is not running
NoLocals == [word_index |-> -1, german_word |-> <<>>, english_word |-> <<>>,
             excluded_at |-> 0, pending |-> {}, rowcount |-> 0]

\* generate_missing_audio is not running and has never run
NotRunning ==
    [pc |-> "idle", df |-> <<>>, index |-> 0, slot |-> 1, runs |-> 0,
     written |-> {}, kept |-> FALSE, rewrote |-> FALSE]

\* word_index values tried by the requests: one below and one above every frame
IndexInputs == -1..3

Init ==
    /\ csv = Readable(FrameA)
    /\ table = {}
    /\ seq = 0
    /\ now = 0
    /\ audio_dir = EmptyDir
    /\ resp = Idle
    /\ pc = [w \in Workers |-> "idle"]
    /\ loc = [w \in Workers |-> NoLocals]
    /\ lock = 0
    /\ wrote = [i \in IndexInputs |-> Absent]
    /\ gen = NotRunning

Next ==
    \/ get_vocabulary
    \/ get_excluded_words
    \/ \E i \in IndexInputs : add_excluded_word(i)
    \/ \E i \in IndexInputs : remove_excluded_word(i)
    \/ \E i \in IndexInputs : get_vocabulary_item(i)
    \/ ChangeSource
    \/ Tick

Spec == Init /\ [][Next]_vars

----------------------------------------------------------------------------
(* The audio directory under requests, with files coming and going *)

\* Sizes a file is given: zero bytes (placeholder) or some content
FileSizes == {0, 1}

\* The names under which audio of the valid rows of the frames is kept
AudioNames ==
    UNION {{AudioFileMap(i, GermanWord(ILoc(f, i)), EnglishWord(ILoc(f, i)))[k] :
                k \in AudioKinds} :
           <<f, i>> \in {<<f, i>> \in Frames \X (0..2) :
                            /\ i < RowCount(f)
                            /\ WordsValid(GermanWord(ILoc(f, i)),
                                          EnglishWord(ILoc(f, i)))}}

\* A file is created or overwritten in german_audio
PutFile(name, size) ==
    /\ Cardinality(DOMAIN audio_dir \cup {name}) <= MaxFiles
    /\ audio_dir' = [n \in DOMAIN audio_dir \cup {name} |->
                        IF n = name THEN size ELSE audio_dir[n]]
    /\ resp' = Idle
    /\ UNCHANGED <<csv, table, seq, now, pc, loc, lock, wrote, gen>>

\* A file is deleted from german_audio
RemoveFile(name) ==
    /\ name \in DOMAIN audio_dir
    /\ audio_dir' = [n \in DOMAIN audio_dir \ {name} |-> audio_dir[n]]
    /\ resp' = Idle
    /\ UNCHANGED <<csv, table, seq, now, pc, loc, lock, wrote, gen>>

AudioInputs == AudioKinds \cup {"word"}

NextAudio ==
    \/ \E i \in IndexInputs, k \in AudioInputs : get_audio(i, k)
    \/ \E i \in IndexInputs : get_vocabulary_item(i)
    \/ get_vocabulary
    \/ ChangeSource
    \/ \E n \in AudioNames, sz \in FileSizes : PutFile(n, sz)
    \/ \E n \in AudioNames : RemoveFile(n)

SpecAudio == Init /\ [][NextAudio]_vars

----------------------------------------------------------------------------
(* The exclusion store under concurrent worker processes.  Every handler   *)
(* opens its own connection; a write statement takes the database write    *)
(* lock and its changes stay in the connection's transaction until         *)
(* conn.commit(); closing the connection without a commit rolls back.      *)

\* add_excluded_word up to conn = sqlite3.connect(DB_PATH)
AddLoad(w, word_index) ==
    /\ pc[w] = "idle"
    /\ IF ~csv.ok
       THEN /\ resp' = SourceUnavailable("add_excluded_word", word_index, NoKind)
            /\ UNCHANGED <<pc, loc>>
       ELSE IF word_index < 0 \/ word_index >= RowCount(csv.df)
       THEN /\ resp' = Response("add_excluded_word", word_index, NoKind,
                                StatusNotFound, "Word not found", <<>>)
            /\ UNCHANGED <<pc, loc>>
       ELSE /\ pc' = [pc EXCEPT ![w] = "add_connected"]
            /\ loc' = [loc EXCEPT ![w] =
                  [NoLocals EXCEPT
                     !.word_index = word_index,
                     !.german_word = GermanWord(ILoc(csv.df, word_index)),
                     !.english_word = EnglishWord(ILoc(csv.df, word_index))]]
            /\ resp' = Idle
    /\ UNCHANGED <<csv, table, seq, now, audio_dir, gen, lock, wrote>>

\* cursor.execute(INSERT OR REPLACE ...) inside the connection's transaction
AddExecute(w) ==
    /\ pc[w] = "add_connected"
    /\ lock = 0
    /\ seq < MaxSeq
    /\ lock' = w
    /\ pc' = [pc EXCEPT ![w] = "add_executed"]
    /\ loc' = [loc EXCEPT ![w].excluded_at = now,
                          ![w].pending =
                              InsertOrReplace(table, seq, loc[w].word_index,
                                              loc[w].german_word,
                                              loc[w].english_word, now)]
    /\ resp' = Idle
    /\ UNCHANGED <<csv, table, seq, now, audio_dir, gen, wrote>>

\* conn.commit() of add_excluded_word, then the response
AddCommit(w) ==
    /\ pc[w] = "add_executed"
    /\ lock = w
    /\ table' = loc[w].pending
    /\ seq' = seq + 1
    /\ lock' = 0
    /\ wrote' = [wrote EXCEPT ![loc[w].word_index] =
                    [present |-> TRUE, german_word |-> loc[w].german_word,
                     english_word |-> loc[w].english_word,
                     excluded_at |-> loc[w].excluded_at]]
    /\ resp' = Response("add_excluded_word", loc[w].word_index, NoKind,
                        StatusOk, "added to excluded list", <<>>)
    /\ pc' = [pc EXCEPT ![w] = "idle"]
    /\ loc' = [loc EXCEPT ![w] = NoLocals]
    /\ UNCHANGED <<csv, now, audio_dir, gen>>

\* remove_excluded_word up to cursor.execute(DELETE ...)
RemoveExecute(w, word_index) ==
    /\ pc[w] = "idle"
    /\ lock = 0
    /\ lock' = w
    /\ pc' = [pc EXCEPT ![w] = "remove_executed"]
    /\ loc' = [loc EXCEPT ![w] =
          [NoLocals EXCEPT !.word_index = word_index,
                           !.pending = DeleteWhere(table, word_index),
                           !.rowcount = RowCountDeleted(table, word_index)]]
    /\ resp' = Idle
    /\ UNCHANGED <<csv, table, seq, now, audio_dir, gen, wrote>>

\* conn.commit() of remove_excluded_word, then the response by rowcount
RemoveCommit(w) ==
    /\ pc[w] = "remove_executed"
    /\ lock = w
    /\ table' = loc[w].pending
    /\ lock' = 0
    /\ wrote' = [wrote EXCEPT ![loc[w].word_index] = Absent]
    /\ resp' = IF loc[w].rowcount > 0
               THEN Response("remove_excluded_word", loc[w].word_index, NoKind,
                             StatusOk, "removed from excluded list", <<>>)
               ELSE Response("remove_excluded_word", loc[w].word_index, NoKind,
                             StatusNotFound, "Excluded word not found", <<>>)
    /\ pc' = [pc EXCEPT ![w] = "idle"]
    /\ loc' = [loc EXCEPT ![w] = NoLocals]
    /\ UNCHANGED <<csv, seq, now, audio_dir, gen>>

\* The statement written through without a transaction around it
WrittenThrough(tbl, pending) == pending

\* The table left behind by a connection closed before its commit
RolledBack(tbl, pending) == tbl

\* The statement or the commit raises (database is locked, I/O error), or the
\* request is cancelled: conn.close() without a commit, HTTPException(500)
Abort(w) ==
    /\ pc[w] \in {"add_connected", "add_executed", "remove_executed"}
    /\ table' = RolledBack(table, loc[w].pending)
    /\ lock' = IF lock = w THEN 0 ELSE lock
    /\ resp' = Response(IF pc[w] = "remove_executed"
                        THEN "remove_excluded_word" ELSE "add_excluded_word",
                        loc[w].word_index, NoKind, StatusServerError,
                        "Error writing excluded word", <<>>)
    /\ pc' = [pc EXCEPT ![w] = "idle"]
    /\ loc' = [loc EXCEPT ![w] = NoLocals]
    /\ UNCHANGED <<csv, seq, now, audio_dir, gen, wrote>>

\* word_index values of the concurrent requests: all on one key
ConcInputs == {0}

NextConc ==
    \/ \E w \in Workers, i \in ConcInputs : AddLoad(w, i)
    \/ \E w \in Workers : AddExecute(w)
    \/ \E w \in Workers : AddCommit(w)
    \/ \E w \in Workers, i \in ConcInputs : RemoveExecute(w, i)
    \/ \E w \in Workers : RemoveCommit(w)
    \/ \E w \in Workers : Abort(w)
    \/ ChangeSource
    \/ Tick

SpecConc == Init /\ [][NextConc]_vars

----------------------------------------------------------------------------
(* Properties of the exclusion store and the vocabulary view *)

\* The row at position i of the loaded frame is valid: both words, trimmed,
\* are non-empty and are not the missing-value marker
ValidRow(df, i) ==
    LET g == Strip(Str(df[i + 1].german_word))
        e == Strip(Str(df[i + 1].english_word))
    IN Len(g) > 0 /\ Len(e) > 0 /\ g # <<"n", "a", "n">> /\ e # <<"n", "a", "n">>

Keys(tbl) == {r.word_index : r \in tbl}

InRange(df, i) == 0 <= i /\ i < Len(df)

\* C1: with the source loaded, GET /api/vocabulary answers 200 with exactly
\* the valid rows whose index is not a key of the store, each once, in
\* ascending source order, whatever dangling records the store holds; in
\* the state right after a successful exclude of i the list does not show i,
\* and right after a successful restore of a valid row i it shows i.
C1_ListEffective ==
    /\ (resp.op = "get_vocabulary" /\ csv.ok) =>
          /\ resp.status = StatusOk
          /\ \A k \in 1..(Len(resp.body) - 1) :
                resp.body[k].index < resp.body[k + 1].index
          /\ {resp.body[k].index : k \in 1..Len(resp.body)}
                = {i \in 0..(Len(csv.df) - 1) :
                      ValidRow(csv.df, i) /\ i \notin Keys(table)}
          /\ \A k \in 1..Len(resp.body) :
                /\ resp.body[k].german_word
                      = Strip(Str(csv.df[resp.body[k].index + 1].german_word))
                /\ resp.body[k].english_word
                      = Strip(Str(csv.df[resp.body[k].index + 1].english_word))
    /\ (resp.op = "add_excluded_word" /\ resp.status = StatusOk /\ csv.ok) =>
          \A k \in 1..Len(VocabularyList(csv.df, table)) :
             VocabularyList(csv.df, table)[k].index # resp.index
    /\ (resp.op = "remove_excluded_word" /\ resp.status = StatusOk /\ csv.ok
           /\ InRange(csv.df, resp.index) /\ ValidRow(csv.df, resp.index)) =>
          \E k \in 1..Len(VocabularyList(csv.df, table)) :
             VocabularyList(csv.df, table)[k].index = resp.index

\* C1 witness: a non-empty list is returned while the store holds a record
\* whose index is out of range of the source and a record of a row that is
\* invalid now
C1_Witness ==
    /\ resp.op = "get_vocabulary"
    /\ resp.status = StatusOk
    /\ Len(resp.body) > 0
    /\ \E r \in table : r.word_index >= Len(csv.df)
    /\ \E r \in table : InRange(csv.df, r.word_index)
                           /\ ~ValidRow(csv.df, r.word_index)

C2_Unique ==
    \A r1 \in table : \A r2 \in table :
        r1.word_index = r2.word_index => r1 = r2

C2_Step ==
    (resp'.op = "add_excluded_word" /\ csv.ok /\ InRange(csv.df, resp'.index)
        /\ resp'.index \in Keys(table))
    => /\ resp'.status = StatusOk
       /\ Cardinality({r \in table' : r.word_index = resp'.index}) = 1
       /\ \A r \in table' : r.word_index = resp'.index =>
             /\ r.excluded_at = now
             /\ \A old \in table : old.word_index = resp'.index =>
                   r.excluded_at >= old.excluded_at
       /\ \A r \in table : r.word_index # resp'.index => r \in table'

\* C2: the store never holds two records of one wordIndex; excluding an
\* in-range index that is already excluded succeeds, leaves exactly one
\* record of it, stamped with the current time, which is not before the
\* stamp of the record it replaces, and keeps the other records.
C2_AtMostOneRecord == [](C2_Unique) /\ [][C2_Step]_vars

\* C2 witness: an excluded index was excluded again, one tick later
C2_Witness ==
    /\ resp.op = "add_excluded_word"
    /\ resp.status = StatusOk
    /\ resp.had
    /\ \E r \in table : r.word_index = resp.index /\ r.id = 2
                           /\ r.excluded_at = 1

\* C3: with the source loaded, get_vocabulary_item(i) answers by the source
\* alone: for i in [0, rowCount) the entry of row i (index i, the trimmed
\* words and sentences), excluded or not, and NotFound for every other i.
C3_GetByIndex ==
    (resp.op = "get_vocabulary_item" /\ csv.ok) =>
        IF InRange(csv.df, resp.index)
        THEN /\ resp.status = StatusOk
             /\ Len(resp.body) = 1
             /\ resp.body[1].index = resp.index
             /\ resp.body[1].german_word
                   = Strip(Str(csv.df[resp.index + 1].german_word))
             /\ resp.body[1].english_word
                   = Strip(Str(csv.df[resp.index + 1].english_word))
             /\ resp.body[1].german_sentence
                   = Strip(Str(csv.df[resp.index + 1].german_sentence))
             /\ resp.body[1].english_sentence
                   = Strip(Str(csv.df[resp.index + 1].english_sentence))
        ELSE /\ resp.status = StatusNotFound
             /\ resp.body = <<>>

\* C3 witness: the entry of an excluded index is returned
C3_Witness ==
    /\ resp.op = "get_vocabulary_item"
    /\ resp.status = StatusOk
    /\ resp.index \in Keys(table)

C4_Step ==
    resp'.op = "remove_excluded_word" =>
        IF resp'.index \in Keys(table)
        THEN /\ resp'.status = StatusOk
             /\ table' = {r \in table : r.word_index # resp'.index}
        ELSE /\ resp'.status = StatusNotFound
             /\ table' = table

C4_Twice ==
    (resp.op = "remove_excluded_word" /\ resp'.op = "remove_excluded_word"
        /\ resp'.index = resp.index)
    => resp'.status = StatusNotFound

\* C4: restoreWord(i) succeeds and deletes the record of i, and only it,
\* exactly when i is a key of the store; otherwise it fails with NotFound and
\* the store is unchanged; a restoreWord(i) that directly follows a
\* restoreWord(i) fails.
C4_Restore == [][C4_Step /\ C4_Twice]_vars

\* C4 witness: a record was restored while another record stays excluded
C4_Witness ==
    /\ resp.op = "remove_excluded_word"
    /\ resp.status = StatusOk
    /\ resp.index \notin Keys(table)
    /\ table # {}

----------------------------------------------------------------------------
(* Properties of the audio artifact locator *)

\* The name the naming convention gives, with the token taken from `word`
\* and cut at `cap`: three digits of the index, the role, the token, ".mp3"
ConventionName(index, role, word, cap) ==
    LET n == IF Len(word) < cap THEN Len(word) ELSE cap
        token == [i \in 1..n |->
                     IF word[i] \in Letters \cup DigitChars THEN word[i]
                     ELSE "_"]
    IN <<DigitOf(index \div 100), DigitOf((index \div 10) % 10),
         DigitOf(index % 10), "_">> \o role \o <<"_">> \o token
         \o <<".", "m", "p", "3">>

German == <<"g", "e", "r", "m", "a", "n">>
English == <<"e", "n", "g", "l", "i", "s", "h">>
SentenceDe == <<"s", "e", "n", "t", "e", "n", "c", "e", "_", "d", "e">>
SentenceEn == <<"s", "e", "n", "t", "e", "n", "c", "e", "_", "e", "n">>

TrimmedGerman(df, i) == Strip(Str(df[i + 1].german_word))
TrimmedEnglish(df, i) == Strip(Str(df[i + 1].english_word))

\* get_audio went as far as naming a file
Resolved ==
    /\ resp.op = "get_audio"
    /\ csv.ok
    /\ InRange(csv.df, resp.index)
    /\ resp.kind \in AudioKinds

\* C5 as claimed: an unknown kind fails with InvalidAudioKind whatever the
\* index, also an index outside [0, rowCount).
C5_AnyIndex ==
    (resp.op = "get_audio" /\ csv.ok /\ resp.kind \notin AudioKinds)
    => resp.status = StatusBadRequest

\* C5 amended: with the source loaded, an unknown kind fails with
\* InvalidAudioKind for every index inside [0, rowCount), whatever the row
\* and whatever files exist; for an index outside [0, rowCount) the range
\* check comes first and the request fails with NotFound.
C5_InRangeOnly ==
    (resp.op = "get_audio" /\ csv.ok /\ resp.kind \notin AudioKinds)
    => IF InRange(csv.df, resp.index)
       THEN resp.status = StatusBadRequest /\ resp.detail = "Invalid audio type"
       ELSE resp.status = StatusNotFound
               /\ resp.detail = "Vocabulary entry not found"

\* C5 witness: an unknown kind is refused for an in-range index while the
\* German-word file of that row is on disk with content
C5_Witness ==
    /\ resp.op = "get_audio"
    /\ resp.kind = "word"
    /\ resp.status = StatusBadRequest
    /\ \E n \in DOMAIN audio_dir :
          /\ audio_dir[n] > 0
          /\ n = ConventionName(resp.index, German,
                                TrimmedGerman(csv.df, resp.index), WordCap)

\* C6 as claimed: both sentence kinds take the German token.
C6_GermanTokenForSentences ==
    Resolved =>
        resp.file =
            CASE resp.kind = "german_word" ->
                   ConventionName(resp.index, German,
                                  TrimmedGerman(csv.df, resp.index), 20)
              [] resp.kind = "english_word" ->
                   ConventionName(resp.index, English,
                                  TrimmedEnglish(csv.df, resp.index), 20)
              [] resp.kind = "german_sentence" ->
                   ConventionName(resp.index, SentenceDe,
                                  TrimmedGerman(csv.df, resp.index), 15)
              [] resp.kind = "english_sentence" ->
                   ConventionName(resp.index, SentenceEn,
                                  TrimmedGerman(csv.df, resp.index), 15)

\* C6 amended: the file get_audio resolves is named
\* '{index in 3 digits}_{role}_{token}.mp3'; the token is the sanitized
\* German word cut at 20 for german_word and at 15 for german_sentence, and
\* the sanitized English word cut at 20 for english_word and at 15 for
\* english_sentence; sanitizing puts one '_' for each non-alphanumeric
\* character, and a word shorter than the cap is taken whole.
C6_FileName ==
    Resolved =>
        resp.file =
            CASE resp.kind = "german_word" ->
                   ConventionName(resp.index, German,
                                  TrimmedGerman(csv.df, resp.index), 20)
              [] resp.kind = "english_word" ->
                   ConventionName(resp.index, English,
                                  TrimmedEnglish(csv.df, resp.index), 20)
              [] resp.kind = "german_sentence" ->
                   ConventionName(resp.index, SentenceDe,
                                  TrimmedGerman(csv.df, resp.index), 15)
              [] resp.kind = "english_sentence" ->
                   ConventionName(resp.index, SentenceEn,
                                  TrimmedEnglish(csv.df, resp.index), 15)

\* C6 witness: the English-sentence file of a row is served whose English
\* word is longer than both caps and holds characters to replace
C6_Witness ==
    /\ Resolved
    /\ resp.kind = "english_sentence"
    /\ resp.status = StatusOk
    /\ Len(TrimmedEnglish(csv.df, resp.index)) > 20
    /\ \E i \in 1..15 :
          TrimmedEnglish(csv.df, resp.index)[i] \notin Letters \cup DigitChars

\* C7: for a valid index and kind, get_audio succeeds exactly when the
\* resolved file exists with a non-zero length; a missing file and an empty
\* file give one and the same ArtifactNotFound response, which differs from
\* the NotFound response of an out-of-range index.
C7_ArtifactNotFound ==
    /\ Resolved =>
          IF resp.file \in DOMAIN audio_dir /\ audio_dir[resp.file] > 0
          THEN resp.status = StatusOk /\ resp.body = resp.file
          ELSE /\ resp.status = StatusNotFound
               /\ resp.detail = "Audio file not found"
               /\ resp.body = <<>>
    /\ (resp.op = "get_audio" /\ csv.ok /\ ~InRange(csv.df, resp.index)) =>
          /\ resp.status = StatusNotFound
          /\ resp.detail = "Vocabulary entry not found"
          /\ resp.detail # "Audio file not found"

\* C7 witness: the resolved file lies on disk with zero length and the
\* request fails
C7_Witness ==
    /\ Resolved
    /\ resp.file \in DOMAIN audio_dir
    /\ audio_dir[resp.file] = 0
    /\ resp.status = StatusNotFound

----------------------------------------------------------------------------
(* Validity, order of the excluded list, concurrent writers *)

\* C8: a row the list treats as invalid is not returned by
\* get_vocabulary_item and not served by get_audio.
C8_SameValidity ==
    (resp.op \in {"get_vocabulary_item", "get_audio"} /\ csv.ok
        /\ InRange(csv.df, resp.index) /\ ~ValidRow(csv.df, resp.index))
    => resp.status # StatusOk

\* Position of the record of word_index i in a returned list (0: not listed)
PositionOf(body, i) ==
    IF \E k \in 1..Len(body) : body[k].word_index = i
    THEN CHOOSE k \in 1..Len(body) : body[k].word_index = i
    ELSE 0

\* The list holds every stored record exactly once, as stored
ListsEveryRecordOnce(body, tbl) ==
    /\ Len(body) = Cardinality(tbl)
    /\ \A r \in tbl :
          \E k \in 1..Len(body) :
             /\ body[k].word_index = r.word_index
             /\ body[k].german_word = r.german_word
             /\ body[k].english_word = r.english_word
             /\ body[k].excluded_at = r.excluded_at

\* C9 as claimed: of two records the one excluded later (the higher id)
\* comes first, also when both were excluded within one tick.
C9_LatestFirstAlways ==
    resp.op = "get_excluded_words" =>
        /\ ListsEveryRecordOnce(resp.body, table)
        /\ \A r1 \in table : \A r2 \in table :
              r1.id > r2.id =>
                 PositionOf(resp.body, r1.word_index)
                    < PositionOf(resp.body, r2.word_index)

\* C9 amended: the list holds every stored record exactly once, ordered by
\* excludedAt descending: of two records with different excludedAt the one
\* excluded later comes first; the order of records excluded within the same
\* timestamp tick is not determined.
C9_LatestTickFirst ==
    resp.op = "get_excluded_words" =>
        /\ resp.status = StatusOk
        /\ ListsEveryRecordOnce(resp.body, table)
        /\ \A r1 \in table : \A r2 \in table :
              r1.excluded_at > r2.excluded_at =>
                 /\ r1.id > r2.id
                 /\ PositionOf(resp.body, r1.word_index)
                       < PositionOf(resp.body, r2.word_index)

\* C9 witness: two records excluded in different ticks are listed
C9_Witness ==
    /\ resp.op = "get_excluded_words"
    /\ Len(resp.body) = 2
    /\ resp.body[1].excluded_at > resp.body[2].excluded_at

C10_Whole ==
    \A i \in IndexInputs :
        IF wrote[i].present
        THEN \E r \in table :
                /\ {q \in table : q.word_index = i} = {r}
                /\ r.german_word = wrote[i].german_word
                /\ r.english_word = wrote[i].english_word
                /\ r.excluded_at = wrote[i].excluded_at
        ELSE \A q \in table : q.word_index # i

C10_NoPartial ==
    (resp'.status = StatusServerError
        \/ \E w \in Workers : pc'[w] # "idle" /\ pc'[w] # pc[w])
    => table' = table

\* C10: under any interleaving of the worker processes the store holds for
\* each key either nothing or the one whole record (words and timestamp) of
\* the call that committed last on that key; a call that fails or is
\* cancelled before its commit, and a call that has not committed yet, leave
\* the store as it was.
C10_AtomicPerKey == [](C10_Whole) /\ [][C10_NoPartial]_vars

\* C10 witness: an excludeWord of index 0 has committed while another
\* excludeWord of index 0, started before that commit with other words, has
\* its statement still to run
C10_Witness ==
    /\ resp.op = "add_excluded_word"
    /\ resp.status = StatusOk
    /\ \E w \in Workers : \E r \in table :
          /\ pc[w] = "add_connected"
          /\ loc[w].word_index = r.word_index
          /\ loc[w].english_word # r.english_word

----------------------------------------------------------------------------
(* Snapshots of the exclusion store, the unavailable source *)

C11_Step ==
    (resp'.op = "add_excluded_word" /\ csv.ok) =>
        IF InRange(csv.df, resp'.index)
        THEN /\ resp'.status = StatusOk
             /\ \E r \in table' :
                   /\ r.word_index = resp'.index
                   /\ r.german_word = TrimmedGerman(csv.df, resp'.index)
                   /\ r.english_word = TrimmedEnglish(csv.df, resp'.index)
        ELSE /\ resp'.status = StatusNotFound
             /\ table' = table

C11_Frozen ==
    /\ csv' # csv => table' = table
    /\ \A r \in table :
          \/ r \in table'
          \/ /\ resp'.op \in {"add_excluded_word", "remove_excluded_word"}
             /\ resp'.index = r.word_index
             /\ resp'.status = StatusOk

\* C11: with the source loaded, excludeWord(i) for i outside [0, rowCount)
\* fails with NotFound and leaves the store unchanged; for i in range it
\* stores a record of i whose words are the trimmed words of row i of the
\* source as it is at that request; a change of the source alters no stored
\* record, and a record stays as stored until its own index is excluded
\* again or restored.
C11_Snapshot == [][C11_Step /\ C11_Frozen]_vars

\* C11 witness: after a change of the source a stored record still carries
\* the words of the row as it was when it was excluded
C11_Witness ==
    /\ csv.ok
    /\ \E r \in table :
          /\ InRange(csv.df, r.word_index)
          /\ r.english_word # TrimmedEnglish(csv.df, r.word_index)
          /\ r.german_word = <<"H", "a", "u", "s">>
          /\ r.english_word = <<"h", "o", "u", "s", "e">>

----------------------------------------------------------------------------
(* The operations that load the source, with the source coming and going *)

\* german_audio holding the German-word audio of row 0 of FrameA
OneFileDir ==
    [n \in {AudioFileMap(0, GermanWord(ILoc(FrameA, 0)),
                         EnglishWord(ILoc(FrameA, 0)))["german_word"]} |-> 1]

InitSource ==
    /\ csv = Readable(FrameA)
    /\ table = {}
    /\ seq = 0
    /\ now = 0
    /\ audio_dir = OneFileDir
    /\ resp = Idle
    /\ pc = [w \in Workers |-> "idle"]
    /\ loc = [w \in Workers |-> NoLocals]
    /\ lock = 0
    /\ wrote = [i \in IndexInputs |-> Absent]
    /\ gen = NotRunning

NextSource ==
    \/ get_vocabulary
    \/ \E i \in IndexInputs : get_vocabulary_item(i)
    \/ \E i \in IndexInputs, k \in AudioInputs : get_audio(i, k)
    \/ \E i \in IndexInputs : add_excluded_word(i)
    \/ ChangeSource

SpecSource == InitSource /\ [][NextSource]_vars

LoadingOps ==
    {"get_vocabulary", "get_vocabulary_item", "get_audio", "add_excluded_word"}

C12_ServerError ==
    (resp.op \in LoadingOps /\ ~csv.ok) =>
        /\ resp.status = StatusServerError
        /\ resp.detail = "Error loading vocabulary data"
        /\ resp.body = <<>>

C12_StoreKept ==
    (resp'.op = "add_excluded_word" /\ ~csv.ok) =>
        table' = table /\ seq' = seq

\* C12: while the source is missing or unparsable, list vocabulary,
\* getByIndex, getAudio and excludeWord all fail with the 500 error of the
\* loader, whatever their arguments and whatever lies in the store and the
\* audio directory; the list is never answered with 200 and an empty list,
\* and excludeWord leaves the store unchanged.
C12_SourceUnavailable == [](C12_ServerError) /\ [][C12_StoreKept]_vars

\* C12 witness: with records in the store and the audio file of row 0 on
\* disk, the source is gone and the list request fails
C12_Witness ==
    /\ ~csv.ok
    /\ resp.op = "get_vocabulary"
    /\ resp.status = StatusServerError
    /\ table # {}
    /\ \E n \in DOMAIN audio_dir : audio_dir[n] > 0

-----------------------------------------------------------------------------
(* Translation: POST /api/translate *)

UpperCase ==
    <<"A", "B", "C", "D", "E", "F", "G", "H", "I", "J", "K", "L", "M", "N",
      "O", "P", "Q", "R", "S", "T", "U", "V", "W", "X", "Y", "Z">>
LowerCase ==
    <<"a", "b", "c", "d", "e", "f", "g", "h", "i", "j", "k", "l", "m", "n",
      "o", "p", "q", "r", "s", "t", "u", "v", "w", "x", "y", "z">>

\* str.isupper() and str.islower() of one character
isupper(c) == \E i \in DOMAIN UpperCase : UpperCase[i] = c
islower(c) == \E i \in DOMAIN LowerCase : LowerCase[i] = c

LowerChar(c) ==
    IF isupper(c)
    THEN LowerCase[CHOOSE i \in DOMAIN UpperCase : UpperCase[i] = c]
    ELSE c
UpperChar(c) ==
    IF islower(c)
    THEN UpperCase[CHOOSE i \in DOMAIN LowerCase : LowerCase[i] = c]
    ELSE c

\* str.lower()
lower(s) == [i \in DOMAIN s |-> LowerChar(s[i])]

\* str.capitalize(): first character upper case, the rest lower case
capitalize(s) ==
    [i \in DOMAIN s |-> IF i = 1 THEN UpperChar(s[i]) ELSE LowerChar(s[i])]

\* str.title(): a cased character is upper case exactly when the character
\* before it is not cased
title(s) ==
    [i \in DOMAIN s |->
        IF i > 1 /\ (isupper(s[i - 1]) \/ islower(s[i - 1]))
        THEN LowerChar(s[i])
        ELSE UpperChar(s[i])]

\* str.istitle(): upper case characters follow only uncased ones, lower
\* case characters follow only cased ones, and there is a cased character
istitle(s) ==
    /\ \E i \in DOMAIN s : isupper(s[i]) \/ islower(s[i])
    /\ \A i \in DOMAIN s :
          LET after_cased ==
                  i > 1 /\ (isupper(s[i - 1]) \/ islower(s[i - 1]))
          IN  /\ isupper(s[i]) => ~after_cased
              /\ islower(s[i]) => after_cased

\* str.strip(chars)
RECURSIVE StripChars(_, _)
StripChars(s, chars) ==
    IF s # <<>> /\ Head(s) \in chars THEN StripChars(Tail(s), chars)
    ELSE IF s # <<>> /\ s[Len(s)] \in chars
         THEN StripChars(SubSeq(s, 1, Len(s) - 1), chars)
         ELSE s

\* str.split(): the maximal runs of non-whitespace characters, in order
RECURSIVE SplitFrom(_, _)
SplitFrom(s, word) ==
    IF s = <<>> THEN (IF word = <<>> THEN <<>> ELSE <<word>>)
    ELSE IF Head(s) \in Whitespace
         THEN (IF word = <<>> THEN <<>> ELSE <<word>>)
                  \o SplitFrom(Tail(s), <<>>)
         ELSE SplitFrom(Tail(s), Append(word, Head(s)))
split(s) == SplitFrom(s, <<>>)

\* ' '.join(words)
RECURSIVE JoinSpace(_)
JoinSpace(ws) ==
    IF ws = <<>> THEN <<>>
    ELSE IF Len(ws) = 1 THEN ws[1]
    ELSE ws[1] \o <<" ">> \o JoinSpace(Tail(ws))

\* dict.get(key, default) on a dictionary given as a set of <<key, value>>
DictGet(dict, key, default) ==
    IF \E kv \in dict : kv[1] = key
    THEN (CHOOSE kv \in dict : kv[1] = key)[2]
    ELSE default

\* The entries of phrase_patterns that the explored texts can hit
phrase_patterns ==
    {<<<<"t", "h", "a", "n", "k", " ", "y", "o", "u">>,
       <<"d", "a", "n", "k", "e">>>>,
     <<<<"g", "o", "o", "d", " ", "m", "o", "r", "n", "i", "n", "g">>,
       <<"g", "u", "t", "e", "n", " ", "m", "o", "r", "g", "e", "n">>>>,
     <<<<"i", " ", "a", "m">>,
       <<"i", "c", "h", " ", "b", "i", "n">>>>}

\* The entries of word_translations that the explored texts can hit
word_translations ==
    {<<<<"h", "o", "u", "s", "e">>,
       <<"H", "a", "u", "s">>>>,
     <<<<"b", "o", "o", "k">>,
       <<"B", "u", "c", "h">>>>,
     <<<<"d", "o", "g">>,
       <<"H", "u", "n", "d">>>>,
     <<<<"t", "h", "e">>,
       <<"d", "e", "r", "/", "d", "i", "e", "/", "d", "a", "s">>>>,
     <<<<"i">>,
       <<"i", "c", "h">>>>,
     <<<<"s", "e", "e">>,
       <<"s", "e", "h", "e">>>>,
     <<<<"g", "o", "o", "d">>,
       <<"g", "u", "t">>>>,
     <<<<"t", "h", "a", "n", "k">>,
       <<"d", "a", "n", "k", "e">>>>,
     <<<<"y", "o", "u">>,
       <<"d", "u">>>>}

Punctuation == {".", ",", "!", "?"}

\* One word of the word-by-word translation
TranslateOneWord(word, first) ==
    LET clean_word == lower(StripChars(word, Punctuation))
        german_word == DictGet(word_translations, clean_word, title(clean_word))
    IN  IF istitle(word) \/ (word = first /\ isupper(word[1]))
        THEN capitalize(german_word)
        ELSE german_word

\* translate_with_fallback: the phrase table on the lower-cased text, else
\* word by word
translate_with_fallback(text) ==
    LET text_lower == Strip(lower(text))
        words == split(text)
    IN  IF \E kv \in phrase_patterns : kv[1] = text_lower
        THEN DictGet(phrase_patterns, text_lower, <<>>)
        ELSE JoinSpace([i \in DOMAIN words |->
                           TranslateOneWord(words[i], words[1])])

\* What requests.post and response.json() can produce for one request: the
\* call raises (no connection, timeout, or the name requests itself being
\* undefined), or a response arrives with a status code and a body that is
\* not JSON, a JSON object without translatedText, one whose translatedText
\* is null, or one whose translatedText is a text
Raised ==
    [raises |-> TRUE, status_code |-> 0, json |-> "none", field |-> "absent",
     translatedText |-> <<>>]
HttpReply(status_code, json, field, translatedText) ==
    [raises |-> FALSE, status_code |-> status_code, json |-> json,
     field |-> field, translatedText |-> translatedText]

ServiceReplies(text) ==
    {Raised,
     HttpReply(503, "none", "absent", <<>>),
     HttpReply(StatusOk, "invalid", "absent", <<>>),
     HttpReply(StatusOk, "object", "absent", <<>>),
     HttpReply(StatusOk, "object", "null", <<>>),
     HttpReply(StatusOk, "object", "text", <<" ">> \o capitalize(text)),
     HttpReply(StatusOk, "object", "text", <<"H", "a", "u", "s", " ">>)}

\* The service did not deliver a translation
ServiceFailed(reply) ==
    \/ reply.raises
    \/ reply.status_code # StatusOk
    \/ reply.json # "object"
    \/ reply.field # "text"

\* Outcome of a call: a returned value or a raised exception
Returned(value) == [raised |-> FALSE, value |-> value]
RaisedError == [raised |-> TRUE, value |-> <<>>]

\* translate_with_libretranslate without its own handlers: a failure of the
\* service reaches the caller as an exception
LibreTranslateUnguarded(text, reply) ==
    IF ServiceFailed(reply) THEN RaisedError
    ELSE Returned(reply.translatedText)

\* translate_with_libretranslate: the service's text when it differs from
\* the request, else translate_with_fallback; every exception is caught
translate_with_libretranslate(text, reply) ==
    IF reply.raises THEN Returned(translate_with_fallback(text))
    ELSE IF reply.status_code = StatusOk
    THEN IF reply.json # "object" \/ reply.field = "null"
         THEN Returned(translate_with_fallback(text))
         ELSE LET translated_text ==
                      IF reply.field = "text" THEN reply.translatedText
                      ELSE text
              IN  IF lower(Strip(translated_text)) # lower(Strip(text))
                  THEN Returned(translated_text)
                  ELSE Returned(translate_with_fallback(text))
    ELSE Returned(translate_with_fallback(text))

UnavailablePrefix ==
    <<"T", "r", "a", "n", "s", "l", "a", "t", "i", "o", "n", " ", "s", "e",
      "r", "v", "i", "c", "e", " ", "u", "n", "a", "v", "a", "i", "l", "a",
      "b", "l", "e", ":", " ">>
NichtVerfuegbarPrefix ==
    <<"Ü", "b", "e", "r", "s", "e", "t", "z", "u", "n", "g", " ", "n", "i",
      "c", "h", "t", " ", "v", "e", "r", "f", "ü", "g", "b", "a", "r", ":",
      " ">>

TranslationResponse(german_word, english_sentence, german_sentence) ==
    [german_word |-> german_word, english_sentence |-> english_sentence,
     german_sentence |-> german_sentence]

\* POST /api/translate
translate_word(text, reply) ==
    LET english_input == Strip(text)
        outcome == translate_with_libretranslate(english_input, reply)
        answer ==
            IF outcome.raised
            THEN TranslationResponse(UnavailablePrefix \o english_input,
                                     english_input,
                                     NichtVerfuegbarPrefix \o english_input)
            ELSE TranslationResponse(outcome.value, english_input,
                                     outcome.value)
    IN  /\ resp' = Response("translate", -1, NoKind, StatusOk, "",
                            <<answer>>)
                       @@ [text |-> text, reply |-> reply]
        /\ UNCHANGED <<csv, table, seq, now, audio_dir, gen, pc, loc, lock, wrote>>

\* The request texts explored, each also padded with blanks
TranslateTexts ==
    {<<>>,
     <<"t", "h", "a", "n", "k", " ", "y", "o", "u">>,
     <<"T", "h", "a", "n", "k", " ", "Y", "o", "u">>,
     <<"h", "o", "u", "s", "e">>,
     <<"H", "o", "u", "s", "e", "!">>,
     <<"t", "h", "e", " ", "d", "o", "g">>,
     <<"T", "h", "e", " ", "d", "o", "g", ".">>,
     <<"t", "e", "e">>,
     <<"i", " ", "s", "e", "e", " ", "B", "o", "b">>,
     <<"g", "o", "o", "d", " ", "b", "o", "o", "k", "?">>,
     <<"I", " ", "a", "m">>}
TranslateInputs ==
    TranslateTexts \cup {<<" ">> \o t \o <<" ">> : t \in TranslateTexts}

InitTranslate == Init

NextTranslate ==
    \E text \in TranslateInputs :
        \E reply \in ServiceReplies(Strip(text)) : translate_word(text, reply)

SpecTranslate == InitTranslate /\ [][NextTranslate]_vars

-----------------------------------------------------------------------------
(* C13 *)

\* The response carries the mark of the unavailable service
Marked(answer) ==
    \/ Prefix(answer.german_word, Len(UnavailablePrefix)) = UnavailablePrefix
    \/ Prefix(answer.german_sentence, Len(NichtVerfuegbarPrefix))
           = NichtVerfuegbarPrefix

\* The local translation of each explored text, as the phrase table and the
\* word table of the program give it
LocalTranslation ==
    {<<<<>>,
       <<>>>>,
     <<<<"t", "h", "a", "n", "k", " ", "y", "o", "u">>,
       <<"d", "a", "n", "k", "e">>>>,
     <<<<"T", "h", "a", "n", "k", " ", "Y", "o", "u">>,
       <<"d", "a", "n", "k", "e">>>>,
     <<<<"h", "o", "u", "s", "e">>,
       <<"H", "a", "u", "s">>>>,
     <<<<"H", "o", "u", "s", "e", "!">>,
       <<"H", "a", "u", "s">>>>,
     <<<<"t", "h", "e", " ", "d", "o", "g">>,
       <<"d", "e", "r", "/", "d", "i", "e", "/", "d", "a", "s", " ", "H", "u", "n", "d">>>>,
     <<<<"T", "h", "e", " ", "d", "o", "g", ".">>,
       <<"D", "e", "r", "/", "d", "i", "e", "/", "d", "a", "s", " ", "H", "u", "n", "d">>>>,
     <<<<"t", "e", "e">>,
       <<"T", "e", "e">>>>,
     <<<<"i", " ", "s", "e", "e", " ", "B", "o", "b">>,
       <<"i", "c", "h", " ", "s", "e", "h", "e", " ", "B", "o", "b">>>>,
     <<<<"g", "o", "o", "d", " ", "b", "o", "o", "k", "?">>,
       <<"g", "u", "t", " ", "B", "u", "c", "h">>>>,
     <<<<"I", " ", "a", "m">>,
       <<"i", "c", "h", " ", "b", "i", "n">>>>}

C13_Answered ==
    resp.op = "translate" =>
        /\ resp.status = StatusOk
        /\ Len(resp.body) = 1
        /\ resp.body[1].english_sentence = Strip(resp.text)
        /\ resp.body[1].german_sentence = resp.body[1].german_word

C13_Degrades ==
    (resp.op = "translate" /\ ServiceFailed(resp.reply)) =>
        /\ ~Marked(resp.body[1])
        /\ \E kv \in LocalTranslation :
              /\ kv[1] = Strip(resp.text)
              /\ kv[2] = resp.body[1].german_word

\* C13 as the specification states it: when the translation service fails
\* (no connection, non-success status, malformed response), the answer is
\* the marked 'unavailable' response.
C13_MarkedOnFailure ==
    (resp.op = "translate" /\ ServiceFailed(resp.reply)) =>
        Marked(resp.body[1])

\* C13: translate answers every text, the empty one included, with 200 and
\* a translation response whose english_sentence is the trimmed text; when
\* the translation service fails (the call raises, a non-success status, a
\* body that is not JSON, a missing or null translatedText) the answer is
\* the local translation of the text (phrase table, else word by word),
\* returned as an ordinary result without the 'unavailable' mark.
C13_LocalOnFailure == C13_Answered /\ C13_Degrades

\* C13 witness: the call to the service raised and "The dog." padded with
\* blanks came back translated word by word, first word capitalised
C13_Witness ==
    /\ resp.op = "translate"
    /\ resp.reply.raises
    /\ resp.text = <<" ", "T", "h", "e", " ", "d", "o", "g", ".", " ">>
    /\ resp.body[1].german_word =
           <<"D", "e", "r", "/", "d", "i", "e", "/", "d", "a", "s", " ",
             "H", "u", "n", "d">>

-----------------------------------------------------------------------------
(* generate_missing_audio.py: the offline generator of german_audio.  One   *)
(* step per row test and per file block; requests are served in between.    *)

MaxRuns == 2        \* the generator is started at most this many times

\* The order of the four file blocks of a row
KindOrder ==
    <<"german_word", "english_word", "german_sentence", "english_sentence">>

\* The inline sanitizer of the generator
SafeInline(word) ==
    [i \in DOMAIN word |-> IF IsAlnum(word[i]) THEN word[i] ELSE "_"]

GenWordCap == 20
GenSentenceCap == 15

\* The file names with the sentence tokens cut like the word tokens
GeneratorNamesOneCap(index, german_word, english_word) ==
    LET number == ZeroPad(Decimal(index), 3)
        safe_german == Prefix(SafeInline(german_word), GenWordCap)
        safe_english == Prefix(SafeInline(english_word), GenWordCap)
    IN  [k \in DOMAIN KindOrder |->
            number
            \o <<<<"_", "g", "e", "r", "m", "a", "n", "_">> \o safe_german,
                 <<"_", "e", "n", "g", "l", "i", "s", "h", "_">>
                     \o safe_english,
                 <<"_", "s", "e", "n", "t", "e", "n", "c", "e", "_", "d",
                   "e", "_">> \o safe_german,
                 <<"_", "s", "e", "n", "t", "e", "n", "c", "e", "_", "e",
                   "n", "_">> \o safe_english>>[k]
            \o <<".", "m", "p", "3">>]

\* The four file names of a row, by position in KindOrder
GeneratorNames(index, german_word, english_word) ==
    LET number == ZeroPad(Decimal(index), 3)
        safe_german == SafeInline(german_word)
        safe_english == SafeInline(english_word)
    IN  [k \in DOMAIN KindOrder |->
            number
            \o <<<<"_", "g", "e", "r", "m", "a", "n", "_">>
                     \o Prefix(safe_german, GenWordCap),
                 <<"_", "e", "n", "g", "l", "i", "s", "h", "_">>
                     \o Prefix(safe_english, GenWordCap),
                 <<"_", "s", "e", "n", "t", "e", "n", "c", "e", "_", "d",
                   "e", "_">> \o Prefix(safe_german, GenSentenceCap),
                 <<"_", "s", "e", "n", "t", "e", "n", "c", "e", "_", "e",
                   "n", "_">> \o Prefix(safe_english, GenSentenceCap)>>[k]
            \o <<".", "m", "p", "3">>]

\* The words of a row as the generator reads them
GenWords(row) ==
    [german_word |-> Strip(Str(row.german_word)),
     english_word |-> Strip(Str(row.english_word))]

\* not german_word or not english_word or either being 'nan'
GenSkips(row) ==
    LET w == GenWords(row)
    IN  \/ w.german_word = <<>> \/ w.english_word = <<>>
        \/ w.german_word = NanText \/ w.english_word = NanText

\* The block of a kind is entered: always for the two words, for a sentence
\* only when its cell is not NaN and its trimmed text is neither empty nor
\* 'nan'
GenWanted(row, k) ==
    \/ k \in {1, 2}
    \/ /\ ~row[KindOrder[k]].isna
       /\ Strip(Str(row[KindOrder[k]])) \notin {<<>>, NanText}

\* not filepath.exists() or filepath.stat().st_size == 0
NeedsAudio(dir, name) == name \notin DOMAIN dir \/ dir[name] = 0

\* The first position of df.iloc[start_index:]
SubsetStart(df, start_index) ==
    IF start_index >= 0
    THEN (IF start_index > Len(df) THEN Len(df) ELSE start_index)
    ELSE (IF Len(df) + start_index < 0 THEN 0 ELSE Len(df) + start_index)

\* --start values: the last row, from row 1 on, past the end
StartInputs == {-1, 1, 3}

\* What gTTS(...) and tts.save(filepath) do to the file: the audio is
\* written, or the file is created and the download fails
SaveOutcomes == {"saved", "empty"}

\* The rows whose audio is requested while the generator is at work
ProbeInputs == 0..2

\* The script is started: the CSV is read once
GenStart(start_index) ==
    /\ gen.pc = "idle"
    /\ gen.runs < MaxRuns
    /\ gen' = IF ~csv.ok
              THEN [gen EXCEPT !.runs = @ + 1]
              ELSE [gen EXCEPT !.runs = @ + 1, !.pc = "row", !.df = csv.df,
                               !.index = SubsetStart(csv.df, start_index)]
    /\ resp' = Idle
    /\ UNCHANGED <<csv, table, seq, now, audio_dir, pc, loc, lock, wrote>>

\* The top of the loop body: a row without two usable words is passed over
GenRow ==
    /\ gen.pc = "row"
    /\ gen.index < Len(gen.df)
    /\ gen' = IF GenSkips(gen.df[gen.index + 1])
              THEN [gen EXCEPT !.index = @ + 1]
              ELSE [gen EXCEPT !.pc = "file", !.slot = 1]
    /\ resp' = Idle
    /\ UNCHANGED <<csv, table, seq, now, audio_dir, pc, loc, lock, wrote>>

\* One file block of the current row
GenFile(outcome) ==
    /\ gen.pc = "file"
    /\ LET row == gen.df[gen.index + 1]
           w == GenWords(row)
           name == GeneratorNames(gen.index, w.german_word,
                                  w.english_word)[gen.slot]
           wanted == GenWanted(row, gen.slot)
           attempted == wanted /\ NeedsAudio(audio_dir, name)
           saved == attempted /\ outcome = "saved"
       IN  /\ ~attempted => outcome = "saved"
           /\ audio_dir' =
                 IF attempted
                 THEN [n \in DOMAIN audio_dir \cup {name} |->
                          IF n = name
                          THEN (IF outcome = "saved" THEN 1 ELSE 0)
                          ELSE audio_dir[n]]
                 ELSE audio_dir
           /\ gen' = [gen EXCEPT
                 !.written = IF saved
                             THEN @ \cup {<<gen.index, KindOrder[gen.slot]>>}
                             ELSE @,
                 !.rewrote = @ \/ (attempted /\ name \in DOMAIN audio_dir
                                      /\ audio_dir[name] > 0),
                 !.kept = @ \/ (wanted /\ ~attempted),
                 !.slot = IF gen.slot < Len(KindOrder) THEN @ + 1 ELSE 1,
                 !.pc = IF gen.slot < Len(KindOrder) THEN "file" ELSE "row",
                 !.index = IF gen.slot < Len(KindOrder) THEN @ ELSE @ + 1]
    /\ resp' = Idle
    /\ UNCHANGED <<csv, table, seq, now, pc, loc, lock, wrote>>

\* The loop is over
GenFinish ==
    /\ gen.pc = "row"
    /\ gen.index >= Len(gen.df)
    /\ gen' = [gen EXCEPT !.pc = "idle", !.df = <<>>, !.index = 0]
    /\ resp' = Idle
    /\ UNCHANGED <<csv, table, seq, now, audio_dir, pc, loc, lock, wrote>>

InitGen ==
    /\ csv \in Files
    /\ table = {}
    /\ seq = 0
    /\ now = 0
    /\ audio_dir = EmptyDir
    /\ resp = Idle
    /\ pc = [w \in Workers |-> "idle"]
    /\ loc = [w \in Workers |-> NoLocals]
    /\ lock = 0
    /\ wrote = [i \in IndexInputs |-> Absent]
    /\ gen = NotRunning

NextGen ==
    \/ \E s \in StartInputs : GenStart(s)
    \/ GenRow
    \/ \E o \in SaveOutcomes : GenFile(o)
    \/ GenFinish
    \/ \E i \in ProbeInputs, k \in AudioKinds : get_audio(i, k)

SpecGen == InitGen /\ [][NextGen]_vars

-----------------------------------------------------------------------------
(* C14 *)

\* Position of a kind in KindOrder
SlotOf(kind) == CHOOSE k \in DOMAIN KindOrder : KindOrder[k] = kind

C14_SameName ==
    csv.ok =>
        \A i \in 0..(Len(csv.df) - 1) :
            ValidRow(csv.df, i) =>
                \A kind \in AudioKinds :
                    GeneratorNames(i, GenWords(csv.df[i + 1]).german_word,
                                   GenWords(csv.df[i + 1]).english_word)
                        [SlotOf(kind)]
                    = AudioFileMap(i, GermanWord(ILoc(csv.df, i)),
                                   EnglishWord(ILoc(csv.df, i)))[kind]

C14_Served ==
    (resp.op = "get_audio" /\ <<resp.index, resp.kind>> \in gen.written) =>
        /\ resp.status = StatusOk
        /\ resp.file \in DOMAIN audio_dir
        /\ audio_dir[resp.file] > 0

C14_Found ==
    \A p \in gen.written :
        LET name == AudioFileMap(p[1], GermanWord(ILoc(csv.df, p[1])),
                                 EnglishWord(ILoc(csv.df, p[1])))[p[2]]
        IN  name \in DOMAIN audio_dir /\ audio_dir[name] > 0

\* C14: for every valid row and each of the four kinds, the file name
\* get_audio probes equals the file name generate_missing_audio builds for
\* that row and kind; every file the generator saved with content is found
\* non-empty under the name get_audio probes, so get_audio for that index
\* and kind answers 200; and the generator never saves over a file that
\* exists with non-zero length.
C14_NamesAgree ==
    /\ C14_SameName
    /\ C14_Served
    /\ C14_Found
    /\ ~gen.rewrote

\* C14 witness: in its second run the generator passed over a file it found
\* with content, and get_audio answered 200 for the German sentence of row
\* 2, whose 22-character word is cut to 15 characters in the file name
C14_Witness ==
    /\ gen.runs = 2
    /\ gen.kept
    /\ resp.op = "get_audio"
    /\ resp.index = 2
    /\ resp.kind = "german_sentence"
    /\ <<2, "german_sentence">> \in gen.written
    /\ resp.status = StatusOk
    /\ Len(TrimmedGerman(csv.df, 2)) > GenSentenceCap

====
